---- MODULE Spec2Model ----
(***************************************************************************)
(* A model of bdflib-rs: the BDF chunk codec (src/src/chunks.rs) and the   *)
(* BDFWriter / BDFReader state machines (src/src/io.rs).                   *)
(*                                                                         *)
(* Bytes are integers 0..255 and byte vectors are sequences of them.       *)
(* Strings are their UTF-8 bytes.  Option<T> is a sequence of length 0     *)
(* (None) or 1 (Some).  Result<T, Error> is a record with an ok field; a   *)
(* panic (a slice out of range, an expect on bad UTF-8) is the error       *)
(* "panic".                                                                *)
(***************************************************************************)
EXTENDS Integers, Sequences, FiniteSets, TLC

VARIABLES
    \* ---- BDFWriter (io.rs:30-39)
    metadata,           \* MetaChunk
    lookup_table,       \* HashLookupTable.entries: id -> HashEntry
    data_entries,       \* buffered DataEntry list
    head_written,
    compressed,
    compression_level,
    \* ---- ThreadManager (io.rs:14-21) and the worker threads
    sender_work,        \* TRUE while sender_work is Some
    threads_started,
    work,               \* the bounded work channel
    result,             \* the bounded result channel
    wk,                 \* one record per worker thread
    sink,               \* the bytes handed to the BufWriter, in order
    \* ---- the producing thread
    pc,                 \* where the producing thread is
    pending,            \* the chunk flush is about to submit
    ret,                \* what the last writer call returned
    calls,              \* writer calls made so far
    \* ---- history of the run
    added,              \* the data entries given to add_data_entry, in order
    submitted,          \* tags of the chunks built by flush, in order
    written,            \* tags of the serialized chunks written, in order
    \* ---- BDFReader (io.rs:23-28)
    file,               \* the bytes of the file the reader was opened on
    rd,                 \* the reader: pos, metadata, lookup_table, compressed
    rret,               \* what the last reader call returned
    got                 \* what data_entries returned for each chunk read

vars == << metadata, lookup_table, data_entries, head_written, compressed,
           compression_level, sender_work, threads_started, work, result, wk,
           sink, pc, pending, ret, calls, added, submitted, written,
           file, rd, rret, got >>

writerVars == << metadata, lookup_table, data_entries, head_written,
                 compressed, compression_level, sender_work, threads_started,
                 work, result, wk, sink, pc, pending, ret, calls, added,
                 submitted, written >>

readerVars == << file, rd, rret, got >>

(***************************************************************************)
(* Bounds of the model.                                                    *)
(***************************************************************************)
\* num_cpus::get(): the number of worker threads and both channel capacities
NumCpus == 2
\* writer calls per run
MaxCalls == 4
\* the largest entry_count given to BDFWriter::new
MaxEntryCount == 1

(***************************************************************************)
(* Constants of chunks.rs and io.rs.                                       *)
(***************************************************************************)
\* b"BDF\x01RAINBOW"
BDF_HDR == <<66, 68, 70, 1, 82, 65, 73, 78, 66, 79, 87>>
NULL_BYTES == <<0, 0, 0, 0>>
\* "lzma"
LZMA == <<108, 122, 109, 97>>
\* "META", "HTBL", "DTBL"
META_CHUNK_NAME == <<77, 69, 84, 65>>
HTBL_CHUNK_NAME == <<72, 84, 66, 76>>
DTBL_CHUNK_NAME == <<68, 84, 66, 76>>
ENTRIES_PER_CHUNK == 100000
\* the preset compress() hands to XzEncoder::new
CompressPreset == 1
\* compression_level of a new writer
DefaultLevel == 1

(***************************************************************************)
(* Option and Result.                                                      *)
(***************************************************************************)
None == <<>>
Some(v) == <<v>>
IsSome(o) == Len(o) = 1
Unwrap(o) == o[1]

Ok(v) == [ok |-> TRUE, val |-> v]
Err(e) == [ok |-> FALSE, err |-> e]

(***************************************************************************)
(* Byte primitives: byteorder::BigEndian, slices, String::from_utf8.       *)
(***************************************************************************)
\* BigEndian::write_u32
WriteU32(n) ==
    << (n \div 16777216) % 256, (n \div 65536) % 256, (n \div 256) % 256, n % 256 >>

\* BigEndian::read_u32
ReadU32(b) == b[1] * 16777216 + b[2] * 65536 + b[3] * 256 + b[4]

\* BigEndian::write_u64, for values below 2^31 (the high word is zero)
WriteU64(n) == <<0, 0, 0, 0>> \o WriteU32(n)

\* BigEndian::read_u64, for values whose high word is zero
ReadU64(b) == ReadU32(SubSeq(b, 5, 8))

\* &data[from..to]: defined when from <= to <= data.len(), a panic otherwise
InRange(data, from, to) == from <= to /\ to <= Len(data)
Slice(data, from, to) == SubSeq(data, from + 1, to)

\* String::from_utf8 succeeds: single-byte code points only
ValidUtf8(b) == \A i \in 1..Len(b) : b[i] < 128

RECURSIVE Concat(_)
Concat(ss) == IF ss = <<>> THEN <<>> ELSE Head(ss) \o Concat(Tail(ss))

(***************************************************************************)
(* crc32::checksum_ieee, of the crc crate.  The crate is not part of the   *)
(* repository; it is modelled by a position-sensitive checksum (the two    *)
(* Fletcher sums), which like CRC-32 changes whenever one byte changes.    *)
(***************************************************************************)
RECURSIVE FletcherSums(_, _, _)
FletcherSums(b, s1, s2) ==
    IF b = <<>> THEN <<s1, s2>>
    ELSE LET n1 == (s1 + Head(b)) % 16381
         IN  FletcherSums(Tail(b), n1, (s2 + n1) % 16381)

\* the four bytes of the sum are kept below 128
checksum_ieee(b) ==
    LET s == FletcherSums(b, 1, 0)
    IN  (s[2] \div 128) * 16777216 + (s[2] % 128) * 65536
            + (s[1] \div 128) * 256 + (s[1] % 128)

(***************************************************************************)
(* xz2's XzEncoder / XzDecoder, not part of the repository: the stream is  *)
(* a header byte, the preset, and the data.  Decoding anything else fails. *)
(***************************************************************************)
XzHeader == 55

XzEncode(data, preset) == <<XzHeader, preset>> \o data

XzDecode(bytes) ==
    IF Len(bytes) >= 2 /\ bytes[1] = XzHeader
    THEN Ok(SubSeq(bytes, 3, Len(bytes)))
    ELSE Err("io")

(***************************************************************************)
(* HashMap: a function; insert overrides.  Iterating a HashMap visits its  *)
(* keys in an order the program does not control: every order is possible. *)
(***************************************************************************)
EmptyMap == <<>>

MapInsert(m, k, v) == [x \in (DOMAIN m) \cup {k} |-> IF x = k THEN v ELSE m[x]]

IterOrders(S) ==
    {o \in [1..Cardinality(S) -> S] : \A i, j \in 1..Cardinality(S) : o[i] = o[j] => i = j}

(***************************************************************************)
(* GenericChunk (chunks.rs:18-24, 56-177).                                 *)
(***************************************************************************)
GenericChunk(length, name, data, crc) ==
    [length |-> length, name |-> name, data |-> data, crc |-> crc]

\* GenericChunk::serialize(&mut self): the bytes returned, and the chunk it
\* leaves behind (Vec::append moves the payload out of self.data)
serialize(chunk) ==
    [out  |-> WriteU32(chunk.length) \o chunk.name \o chunk.data \o WriteU32(chunk.crc),
     self |-> [chunk EXCEPT !.data = <<>>]]

\* a compress that stores the checksum of the compressed payload
CompressNewCrc(chunk, level) ==
    LET compressed_data == XzEncode(chunk.data, CompressPreset)
    IN  [chunk EXCEPT !.length = Len(compressed_data), !.data = compressed_data,
                      !.crc = checksum_ieee(compressed_data)]

\* GenericChunk::compress: the level the caller passes is not what the body
\* hands to XzEncoder::new (chunks.rs:149)
compress(chunk, level) ==
    LET compressed_data == XzEncode(chunk.data, CompressPreset)
    IN  [chunk EXCEPT !.length = Len(compressed_data), !.data = compressed_data]

\* a decompress that does not compare the checksum
DecompressUnchecked(chunk) ==
    LET decoded == XzDecode(chunk.data)
    IN  IF ~decoded.ok THEN decoded
        ELSE Ok([chunk EXCEPT !.length = Len(decoded.val), !.data = decoded.val])

\* GenericChunk::decompress: Ok(the chunk afterwards) or Err
decompress(chunk) ==
    LET decoded == XzDecode(chunk.data)
    IN  IF ~decoded.ok THEN decoded
        ELSE IF checksum_ieee(decoded.val) # chunk.crc THEN Err("invalid_data")
        ELSE Ok([chunk EXCEPT !.length = Len(decoded.val), !.data = decoded.val])

(***************************************************************************)
(* Unsigned integers wider than the checker's own: a number is the         *)
(* sequence of its bits, lowest first, without leading zero bits (zero is  *)
(* the empty sequence).  u64 and f64 values are held this way.             *)
(***************************************************************************)
RECURSIVE BigNorm(_)
BigNorm(x) ==
    IF x = <<>> \/ x[Len(x)] = 1 THEN x ELSE BigNorm(SubSeq(x, 1, Len(x) - 1))

RECURSIVE BigFromInt(_)
BigFromInt(n) == IF n = 0 THEN <<>> ELSE <<n % 2>> \o BigFromInt(n \div 2)

\* 2^k
BigPow2(k) == [i \in 1..(k + 1) |-> IF i = k + 1 THEN 1 ELSE 0]

\* x * 2^k and x div 2^k
BigShl(x, k) == IF x = <<>> THEN <<>> ELSE [i \in 1..k |-> 0] \o x
BigShr(x, k) == IF k >= Len(x) THEN <<>> ELSE SubSeq(x, k + 1, Len(x))

\* a < b, comparing from the highest bit down
RECURSIVE BigLess(_, _)
BigLess(a, b) ==
    IF Len(a) # Len(b) THEN Len(a) < Len(b)
    ELSE IF a = <<>> THEN FALSE
    ELSE IF a[Len(a)] # b[Len(b)] THEN a[Len(a)] < b[Len(b)]
    ELSE BigLess(BigNorm(SubSeq(a, 1, Len(a) - 1)), BigNorm(SubSeq(b, 1, Len(b) - 1)))

\* a + b + carry, bit by bit
RECURSIVE BigAddC(_, _, _)
BigAddC(a, b, carry) ==
    IF a = <<>> /\ b = <<>> THEN (IF carry = 1 THEN <<1>> ELSE <<>>)
    ELSE LET x == IF a = <<>> THEN 0 ELSE a[1]
             y == IF b = <<>> THEN 0 ELSE b[1]
             s == x + y + carry
         IN  <<s % 2>> \o BigAddC(IF a = <<>> THEN <<>> ELSE Tail(a),
                                  IF b = <<>> THEN <<>> ELSE Tail(b), s \div 2)

BigAdd(a, b) == BigAddC(a, b, 0)

\* a - b - borrow for a >= b, bit by bit
RECURSIVE BigSubB(_, _, _)
BigSubB(a, b, borrow) ==
    IF a = <<>> THEN <<>>
    ELSE LET y == IF b = <<>> THEN 0 ELSE b[1]
             d == a[1] - y - borrow
         IN  <<d % 2>> \o BigSubB(Tail(a), IF b = <<>> THEN <<>> ELSE Tail(b),
                                  IF d < 0 THEN 1 ELSE 0)

BigSub(a, b) == BigNorm(BigSubB(a, b, 0))

\* one step of the long division of a by b: bit st.i of a is brought down
\* to the remainder
BigDivStep(a, b, st) ==
    LET shifted == BigNorm(<<a[st.i]>> \o st.r)
    IN  IF BigLess(shifted, b)
        THEN [i |-> st.i - 1, q |-> <<0>> \o st.q, r |-> shifted]
        ELSE [i |-> st.i - 1, q |-> <<1>> \o st.q, r |-> BigSub(shifted, b)]

RECURSIVE BigDivLoop(_, _, _)
BigDivLoop(a, b, st) ==
    IF st.i = 0 THEN [q |-> BigNorm(st.q), r |-> st.r]
    ELSE BigDivLoop(a, b, BigDivStep(a, b, st))

\* long division of a by b > 0, from the highest bit of a down: the
\* quotient and the remainder
BigDivMod(a, b) == BigDivLoop(a, b, [i |-> Len(a), q |-> <<>>, r |-> <<>>])

\* ceil(a / b) in exact arithmetic, b > 0
BigCeilDiv(a, b) ==
    LET d == BigDivMod(a, b)
    IN  IF d.r = <<>> THEN d.q ELSE BigAdd(d.q, <<1>>)

(***************************************************************************)
(* f64 arithmetic (IEEE 754 binary64, round to nearest, ties to even) on   *)
(* the values MetaChunk::new meets: non-negative, far from the subnormal   *)
(* and overflow ranges.                                                    *)
(***************************************************************************)
\* the bits of a u32 and of an f64's significand
U32Bits == 32
F64Precision == 53

\* u32::MAX
U32Max == [i \in 1..U32Bits |-> 1]

\* x rounded to F64Precision significant bits; sticky says that a non-zero
\* part below the lowest bit of x was already cut off
F64Round(x, sticky) ==
    IF Len(x) <= F64Precision THEN x
    ELSE LET drop  == Len(x) - F64Precision
             kept  == BigShr(x, drop)
             guard == x[drop]
             rest  == sticky \/ \E i \in 1..(drop - 1) : x[i] = 1
             up    == guard = 1 /\ (rest \/ kept[1] = 1)
         IN  BigShl(IF up THEN BigAdd(kept, <<1>>) ELSE kept, drop)

\* `n as f64` for an unsigned integer n
F64FromUint(n) == F64Round(n, FALSE)

\* (a / b).ceil() as u32 for f64 values a >= 0 and b >= 0 that are integers:
\* the quotient, worked out to two bits more than an f64 holds, is rounded
\* to an f64 before ceil sees it, and `as u32` saturates (NaN, from
\* 0.0 / 0.0, becomes 0; +inf, from a / 0.0, becomes u32::MAX)
F64DivCeilAsU32(a, b) ==
    IF b = <<>> THEN (IF a = <<>> THEN <<>> ELSE U32Max)
    ELSE IF a = <<>> THEN <<>>
    ELSE LET need    == F64Precision + 2 + Len(b)
             scale   == IF Len(a) >= need THEN 0 ELSE need - Len(a)
             d       == BigDivMod(BigShl(a, scale), b)
             rounded == F64Round(d.q, d.r # <<>>)
             whole   == BigShr(rounded, scale)
             frac    == \E i \in 1..scale : rounded[i] = 1
             ceiled  == IF frac THEN BigAdd(whole, <<1>>) ELSE whole
         IN  IF BigLess(U32Max, ceiled) THEN U32Max ELSE ceiled

(***************************************************************************)
(* MetaChunk (chunks.rs:27-33, 207-285).                                   *)
(***************************************************************************)
\* (entry_count as f64 / entries_per_chunk as f64).ceil() as u32, on the
\* values of the model (entries_per_chunk >= 1, both far below 2^24)
ChunkCount(entry_count, entries_per_chunk) ==
    (entry_count + entries_per_chunk - 1) \div entries_per_chunk

\* the same expression on the full range of its operands (chunks.rs:215 and
\* io.rs:214-215), which are held as wide integers
ChunkCountWide(entry_count, entries_per_chunk) ==
    F64DivCeilAsU32(F64FromUint(entry_count), F64FromUint(entries_per_chunk))

\* MetaChunk::new
MetaChunkNew(entry_count, entries_per_chunk, compress_flag) ==
    [chunk_count        |-> ChunkCount(entry_count, entries_per_chunk),
     entries_per_chunk  |-> entries_per_chunk,
     entry_count        |-> entry_count,
     compression_method |-> IF compress_flag THEN Some(LZMA) ELSE None]

\* MetaChunk::serialize
MetaSerialize(m) ==
    WriteU32(m.chunk_count) \o WriteU32(m.entries_per_chunk) \o WriteU64(m.entry_count)
        \o (IF IsSome(m.compression_method) THEN Unwrap(m.compression_method)
            ELSE <<0, 0, 0, 0>>)

\* From<&MetaChunk> for GenericChunk
GenericFromMeta(m) ==
    LET serialized_data == MetaSerialize(m)
    IN  GenericChunk(Len(serialized_data), META_CHUNK_NAME, serialized_data,
                     checksum_ieee(serialized_data))

\* TryFrom<GenericChunk> for MetaChunk
MetaTryFrom(chunk) ==
    IF chunk.name # META_CHUNK_NAME THEN Err("invalid_data")
    ELSE IF Len(chunk.data) < 20 THEN Err("invalid_data")
    ELSE LET compression_method_raw == Slice(chunk.data, 16, 20)
         IN  IF compression_method_raw # NULL_BYTES /\ ~ValidUtf8(compression_method_raw)
             THEN Err("panic")
             ELSE Ok([chunk_count        |-> ReadU32(Slice(chunk.data, 0, 4)),
                      entries_per_chunk  |-> ReadU32(Slice(chunk.data, 4, 8)),
                      entry_count        |-> ReadU64(Slice(chunk.data, 8, 16)),
                      compression_method |->
                          IF compression_method_raw # NULL_BYTES
                          THEN Some(compression_method_raw) ELSE None])

(***************************************************************************)
(* HashEntry and HashLookupTable (chunks.rs:36-47, 287-378).               *)
(***************************************************************************)
\* HashEntry::new
HashEntryNew(name, output_length) ==
    [id |-> 0, output_length |-> output_length, name |-> name]

\* HashEntry::serialize
HashEntrySerialize(e) ==
    WriteU32(e.id) \o WriteU32(e.output_length) \o WriteU32(Len(e.name)) \o e.name

\* HashLookupTable::serialize, visiting the entries in the order `order`
LookupSerialize(entries, order) ==
    Concat([i \in 1..Len(order) |-> HashEntrySerialize(entries[order[i]])])

\* From<&HashLookupTable> for GenericChunk
GenericFromLookup(entries, order) ==
    LET serialized_data == LookupSerialize(entries, order)
    IN  GenericChunk(Len(serialized_data), HTBL_CHUNK_NAME, serialized_data,
                     checksum_ieee(serialized_data))

\* HashLookupTable::get_entry: the entry found by name.  With two entries of
\* one name the HashMap's order decides; the tables of the model hold none.
GetEntryIds(entries, name) == {id \in DOMAIN entries : entries[id].name = name}

\* the loop of TryFrom<GenericChunk> for HashLookupTable (chunks.rs:322-343)
RECURSIVE LookupParseLoop(_, _, _)
LookupParseLoop(data, position, hash_entries) ==
    IF Len(data) > position + 12
    THEN LET id            == ReadU32(Slice(data, position, position + 4))
             output_length == ReadU32(Slice(data, position + 4, position + 8))
             name_length   == ReadU32(Slice(data, position + 8, position + 12))
             name_pos      == position + 12
         IN  IF ~InRange(data, name_pos, name_pos + name_length) THEN Err("panic")
             ELSE LET name == Slice(data, name_pos, name_pos + name_length)
                  IN  IF ~ValidUtf8(name) THEN Err("panic")
                      ELSE LookupParseLoop(data, name_pos,
                               MapInsert(hash_entries, id,
                                   [id |-> id, output_length |-> output_length,
                                    name |-> name]))
    ELSE Ok(hash_entries)

\* TryFrom<GenericChunk> for HashLookupTable
LookupTryFrom(chunk) ==
    IF chunk.name # HTBL_CHUNK_NAME THEN Err("invalid_data")
    ELSE LookupParseLoop(chunk.data, 0, EmptyMap)

(***************************************************************************)
(* DataEntry (chunks.rs:50-54, 380-426) and the DTBL payload               *)
(* (chunks.rs:74-144).                                                     *)
(***************************************************************************)
\* DataEntry::new followed by add_hash_value calls
DataEntry(plain, hashes) == [plain |-> plain, hashes |-> hashes]

\* the digest records of DataEntry::serialize, visiting the hashes in `order`
HashData(entry, entries, order) ==
    Concat([i \in 1..Len(order) |->
        LET ids == GetEntryIds(entries, order[i])
        IN  IF ids = {} THEN <<>>
            ELSE WriteU32(CHOOSE id \in ids : TRUE) \o entry.hashes[order[i]]])

\* DataEntry::serialize
DataEntrySerialize(entry, entries, order) ==
    LET hash_data == HashData(entry, entries, order)
    IN  WriteU32(4 + Len(entry.plain) + Len(hash_data))
            \o WriteU32(Len(entry.plain)) \o entry.plain \o hash_data

\* the orders in which the hashes of each entry of a list can be visited
RECURSIVE HashOrders(_)
HashOrders(list) ==
    IF list = <<>> THEN {<<>>}
    ELSE {<<o>> \o rest : o \in IterOrders(DOMAIN Head(list).hashes),
                          rest \in HashOrders(Tail(list))}

\* GenericChunk::from_data_entries
from_data_entries(list, entries, orders) ==
    LET serialized_data ==
            Concat([i \in 1..Len(list) |-> DataEntrySerialize(list[i], entries, orders[i])])
    IN  GenericChunk(Len(serialized_data), DTBL_CHUNK_NAME, serialized_data,
                     checksum_ieee(serialized_data))

\* the inner loop of data_entries (chunks.rs:106-116)
RECURSIVE DecodeDigests(_, _, _, _, _)
DecodeDigests(data, entries, position, entry_end, hash_values) ==
    IF position < entry_end
    THEN IF ~InRange(data, position, position + 4) THEN Err("panic")
         ELSE LET entry_id == ReadU32(Slice(data, position, position + 4))
                  hash_pos == position + 4
              IN  IF entry_id \in DOMAIN entries
                  THEN LET hash_entry == entries[entry_id]
                           hash_end   == hash_pos + hash_entry.output_length
                       IN  IF ~InRange(data, hash_pos, hash_end) THEN Err("panic")
                           ELSE DecodeDigests(data, entries, hash_end, entry_end,
                                    MapInsert(hash_values, hash_entry.name,
                                              Slice(data, hash_pos, hash_end)))
                  ELSE DecodeDigests(data, entries, hash_pos, entry_end, hash_values)
    ELSE Ok([position |-> position, hashes |-> hash_values])

\* the outer loop of data_entries (chunks.rs:84-121)
RECURSIVE DecodeEntries(_, _, _, _)
DecodeEntries(data, entries, position, decoded) ==
    IF Len(data) > position + 8
    THEN LET entry_length == ReadU32(Slice(data, position, position + 4))
             entry_end    == position + 4 + entry_length
             pw_length    == ReadU32(Slice(data, position + 4, position + 8))
             plain_pos    == position + 8
         IN  IF ~InRange(data, plain_pos, plain_pos + pw_length) THEN Err("panic")
             ELSE LET pw_plain == Slice(data, plain_pos, plain_pos + pw_length)
                      digests  == DecodeDigests(data, entries, plain_pos + pw_length,
                                                entry_end, EmptyMap)
                  IN  IF ~ValidUtf8(pw_plain) THEN Err("panic")
                      ELSE IF ~digests.ok THEN digests
                      ELSE DecodeEntries(data, entries, digests.val.position,
                               Append(decoded, DataEntry(pw_plain, digests.val.hashes)))
    ELSE Ok(decoded)

\* GenericChunk::data_entries
chunk_data_entries(chunk, entries) ==
    IF chunk.name = HTBL_CHUNK_NAME THEN Err("other")
    ELSE DecodeEntries(chunk.data, entries, 0, <<>>)

(***************************************************************************)
(* Inputs of the model.                                                    *)
(***************************************************************************)
Workers == 1..NumCpus

\* the hash functions a caller registers: "f" with 1-byte digests and "ba"
\* with 2-byte digests
HashAlgos == { HashEntryNew(<<102>>, 1), HashEntryNew(<<98, 97>>, 2) }

\* the values given to set_entries_per_chunk and set_compression_level
ChunkSizes == {1, 2}
Levels == {1, 3}

\* the k-th data entry a caller adds: the plaintext is one letter, and there
\* is a digest of the right length under the name of lookup entry 0, if any
DataInput(k, entries) ==
    DataEntry(<<96 + k>>,
              IF 0 \in DOMAIN entries
              THEN (entries[0].name :> [i \in 1..entries[0].output_length |-> k])
              ELSE EmptyMap)

Unit == <<>>

(***************************************************************************)
(* BDFWriter::new (io.rs:79-91) and ThreadManager::new (io.rs:44-55).      *)
(***************************************************************************)
NotSpawned == [st |-> "none", compress |-> FALSE, level |-> 0, held |-> None]

NoReader == [open |-> FALSE, poisoned |-> FALSE, pos |-> 0, metadata |-> None,
             lookup_table |-> None, compressed |-> FALSE]

WriterNew(entry_count, compress_flag) ==
    /\ metadata = MetaChunkNew(entry_count, ENTRIES_PER_CHUNK, compress_flag)
    /\ lookup_table = EmptyMap
    /\ data_entries = <<>>
    /\ head_written = FALSE
    /\ compressed = compress_flag
    /\ compression_level = DefaultLevel
    /\ sender_work = TRUE
    /\ threads_started = FALSE
    /\ work = <<>>
    /\ result = <<>>
    /\ wk = [w \in Workers |-> NotSpawned]
    /\ sink = <<>>
    /\ pc = [at |-> "idle", op |-> "new"]
    /\ pending = None
    /\ ret = [op |-> "new", val |-> Ok(Unit)]
    /\ calls = 0
    /\ added = <<>>
    /\ submitted = <<>>
    /\ written = <<>>

Init ==
    /\ \E entry_count \in 0..MaxEntryCount, compress_flag \in BOOLEAN :
           WriterNew(entry_count, compress_flag)
    /\ file = <<>>
    /\ rd = NoReader
    /\ rret = [op |-> "none", val |-> Ok(Unit)]
    /\ got = <<>>

\* the caller may make another writer call, within a number of calls
CanCallWithin(limit) == pc.at = "idle" /\ calls < limit /\ ~rd.open
CanCall == CanCallWithin(MaxCalls)

(***************************************************************************)
(* BDFWriter::add_lookup_entry (io.rs:117-129).                            *)
(***************************************************************************)
\* an id counted from one instead of from the size of the table
NextLookupIdFromOne(entries) == Cardinality(DOMAIN entries) + 1

\* the id given to a new lookup entry (io.rs:124)
NextLookupId(entries) == Cardinality(DOMAIN entries)

\* a guard that never refuses the call
HeadGuardNever(written_flag) == FALSE

\* whether the call is refused (io.rs:118)
HeadGuard(written_flag) == written_flag

AddLookupEntry(entry) ==
    /\ CanCall
    /\ calls' = calls + 1
    /\ pc' = [at |-> "idle", op |-> "add_lookup_entry"]
    /\ IF HeadGuard(head_written)
       THEN /\ ret' = [op |-> "add_lookup_entry", val |-> Err("other")]
            /\ UNCHANGED lookup_table
       ELSE LET id == NextLookupId(lookup_table)
            IN  /\ lookup_table' = MapInsert(lookup_table, id, [entry EXCEPT !.id = id])
                /\ ret' = [op |-> "add_lookup_entry", val |-> Ok(id)]
    /\ UNCHANGED << metadata, data_entries, head_written, compressed,
                    compression_level, sender_work, threads_started, work,
                    result, wk, sink, pending, added, submitted, written >>
    /\ UNCHANGED readerVars

(***************************************************************************)
(* BDFWriter::set_entries_per_chunk (io.rs:206-217) and                    *)
(* set_compression_level (io.rs:200-202).                                  *)
(***************************************************************************)
SetEntriesPerChunk(number) ==
    /\ CanCall
    /\ calls' = calls + 1
    /\ pc' = [at |-> "idle", op |-> "set_entries_per_chunk"]
    /\ IF HeadGuard(head_written)
       THEN /\ ret' = [op |-> "set_entries_per_chunk", val |-> Err("other")]
            /\ UNCHANGED metadata
       ELSE /\ metadata' = [metadata EXCEPT
                              !.entries_per_chunk = number,
                              !.chunk_count = ChunkCount(metadata.entry_count, number)]
            /\ ret' = [op |-> "set_entries_per_chunk", val |-> Ok(Unit)]
    /\ UNCHANGED << lookup_table, data_entries, head_written, compressed,
                    compression_level, sender_work, threads_started, work,
                    result, wk, sink, pending, added, submitted, written >>
    /\ UNCHANGED readerVars

SetCompressionLevel(level) ==
    /\ CanCall
    /\ calls' = calls + 1
    /\ pc' = [at |-> "idle", op |-> "set_compression_level"]
    /\ compression_level' = level
    /\ ret' = [op |-> "set_compression_level", val |-> Ok(Unit)]
    /\ UNCHANGED << metadata, lookup_table, data_entries, head_written,
                    compressed, sender_work, threads_started, work, result, wk,
                    sink, pending, added, submitted, written >>
    /\ UNCHANGED readerVars

(***************************************************************************)
(* BDFWriter::flush (io.rs:144-171), up to its send.  The sink of this     *)
(* model takes every byte of every write.                                  *)
(***************************************************************************)
\* a flush that emits the header whether or not it was emitted before
FlushHeaderAlways(written_flag, meta, entries, order) ==
    BDF_HDR \o serialize(GenericFromMeta(meta)).out
            \o serialize(GenericFromLookup(entries, order)).out

\* io.rs:145-152: the magic, the META chunk and the HTBL chunk
FlushHeader(written_flag, meta, entries, order) ==
    IF ~written_flag
    THEN BDF_HDR \o serialize(GenericFromMeta(meta)).out
                 \o serialize(GenericFromLookup(entries, order)).out
    ELSE <<>>

\* a start_threads that spawns no thread
StartThreadsNone(compress_flag, level) == [w \in Workers |-> NotSpawned]

\* BDFWriter::start_threads (io.rs:94-113): each thread takes its own copy
\* of compressed and compression_level when it is spawned
StartThreads(compress_flag, level) ==
    [w \in Workers |-> [st |-> "recv", compress |-> compress_flag,
                        level |-> level, held |-> None]]

\* an inline path that serializes the chunk as it is
InlineSerializePlain(chunk, compress_flag, level) == serialize(chunk).out

\* io.rs:161-166: what the producing thread does with a chunk when the work
\* sender is gone
InlineSerialize(chunk, compress_flag, level) ==
    serialize(IF compress_flag THEN compress(chunk, level) ELSE chunk).out

\* a submitted chunk carries, for the record, its place in the order of
\* submission and the compression_level in force when it was submitted
FlushBegin(op, buffer, order, orders) ==
    LET data_chunk == from_data_entries(buffer, lookup_table, orders)
        tag        == Len(submitted) + 1
    IN  /\ sink' = sink \o FlushHeader(head_written, metadata, lookup_table, order)
        /\ head_written' = TRUE
        /\ wk' = IF threads_started THEN wk
                 ELSE StartThreads(compressed, compression_level)
        /\ threads_started' = TRUE
        /\ submitted' = Append(submitted, tag)
        /\ IF sender_work
           THEN /\ pending' = Some([chunk |-> data_chunk, tag |-> tag,
                                    level |-> compression_level])
                /\ pc' = [at |-> "send_work", op |-> op]
           ELSE /\ pending' = Some([bytes |-> InlineSerialize(data_chunk, compressed,
                                                             compression_level),
                                    tag |-> tag])
                /\ pc' = [at |-> "send_result", op |-> op]

HeaderOrders == IF head_written THEN {<<>>} ELSE IterOrders(DOMAIN lookup_table)

(***************************************************************************)
(* BDFWriter::add_data_entry (io.rs:134-141).                              *)
(***************************************************************************)
\* io.rs:136
BufferFull(buffer, meta) == Len(buffer) >= meta.entries_per_chunk

AddDataEntryWithin(limit, entry) ==
    /\ CanCallWithin(limit)
    /\ calls' = calls + 1
    /\ added' = Append(added, entry)
    /\ data_entries' = Append(data_entries, entry)
    /\ IF BufferFull(data_entries', metadata)
       THEN /\ \E order \in HeaderOrders, orders \in HashOrders(data_entries') :
                   FlushBegin("add_data_entry", data_entries', order, orders)
            /\ UNCHANGED ret
       ELSE /\ ret' = [op |-> "add_data_entry", val |-> Ok(Unit)]
            /\ pc' = [at |-> "idle", op |-> "add_data_entry"]
            /\ UNCHANGED << head_written, threads_started, wk, sink, pending,
                            submitted >>
    /\ UNCHANGED << metadata, lookup_table, compressed, compression_level,
                    sender_work, work, result, written >>
    /\ UNCHANGED readerVars

AddDataEntry(entry) == AddDataEntryWithin(MaxCalls, entry)

(***************************************************************************)
(* BDFWriter::finish (io.rs:189-197): its first step is a flush.           *)
(***************************************************************************)
Finish ==
    /\ CanCall
    /\ calls' = calls + 1
    /\ \E order \in HeaderOrders, orders \in HashOrders(data_entries) :
           FlushBegin("finish", data_entries, order, orders)
    /\ UNCHANGED << metadata, lookup_table, data_entries, compressed,
                    compression_level, sender_work, work, result, ret, added,
                    written >>
    /\ UNCHANGED readerVars

(***************************************************************************)
(* The sends of flush (io.rs:159-166).  A send to a full bounded channel   *)
(* blocks.                                                                 *)
(***************************************************************************)
ChannelFull(queue) == Len(queue) >= NumCpus

SendWork ==
    /\ pc.at = "send_work"
    /\ ~ChannelFull(work)
    /\ work' = Append(work, Unwrap(pending))
    /\ pending' = None
    /\ pc' = [pc EXCEPT !.at = "drain"]
    /\ UNCHANGED << metadata, lookup_table, data_entries, head_written,
                    compressed, compression_level, sender_work, threads_started,
                    result, wk, sink, ret, calls, added, submitted, written >>
    /\ UNCHANGED readerVars

SendResult ==
    /\ pc.at = "send_result"
    /\ ~ChannelFull(result)
    /\ result' = Append(result, Unwrap(pending))
    /\ pending' = None
    /\ pc' = [pc EXCEPT !.at = "drain"]
    /\ UNCHANGED << metadata, lookup_table, data_entries, head_written,
                    compressed, compression_level, sender_work, threads_started,
                    work, wk, sink, ret, calls, added, submitted, written >>
    /\ UNCHANGED readerVars

(***************************************************************************)
(* BDFWriter::write_serialized (io.rs:173-179), one try_recv at a time,    *)
(* and what follows it in flush and in finish.                             *)
(***************************************************************************)
\* receiver_result.try_recv()
TryRecv(queue) == IF queue = <<>> THEN None ELSE Some(Head(queue))

\* the capacity BufWriter::new gives the writer (io.rs:85): the default of
\* the standard library
BufCapacity == 8192

\* what one BufWriter::write(buf) makes of buf, the return value being
\* dropped by the callers (io.rs:146-150, 175): a buf shorter than the
\* capacity is buffered whole and later written out in full by the
\* BufWriter's own loop; a longer one is handed to File::write in one call,
\* which may take any part of it
BufWrite(capacity, buf) ==
    IF Len(buf) < capacity THEN {buf}
    ELSE {SubSeq(buf, 1, n) : n \in 1..Len(buf)}

\* one turn of the loop that found a result: it is written to the sink
WriteSerializedTo(capacity) ==
    /\ pc.at \in {"drain", "final_drain"}
    /\ IsSome(TryRecv(result))
    /\ result' = Tail(result)
    /\ \E taken \in BufWrite(capacity, Unwrap(TryRecv(result)).bytes) :
           sink' = sink \o taken
    /\ written' = Append(written, Unwrap(TryRecv(result)).tag)
    /\ UNCHANGED << metadata, lookup_table, data_entries, head_written,
                    compressed, compression_level, sender_work, threads_started,
                    work, wk, pc, pending, ret, calls, added, submitted >>
    /\ UNCHANGED readerVars

WriteSerialized == WriteSerializedTo(BufCapacity)

\* the loop of flush's write_serialized ends: flush returns (io.rs:168-170),
\* to the caller of add_data_entry or into finish, which drops the work
\* sender (io.rs:191) and goes on to wait
FlushReturn ==
    /\ pc.at = "drain"
    /\ ~IsSome(TryRecv(result))
    /\ data_entries' = <<>>
    /\ IF pc.op = "finish"
       THEN /\ sender_work' = FALSE
            /\ pc' = [pc EXCEPT !.at = "wait"]
            /\ UNCHANGED ret
       ELSE /\ pc' = [pc EXCEPT !.at = "idle"]
            /\ ret' = [op |-> "add_data_entry", val |-> Ok(Unit)]
            /\ UNCHANGED sender_work
    /\ UNCHANGED << metadata, lookup_table, head_written, compressed,
                    compression_level, threads_started, work, result, wk, sink,
                    pending, calls, added, submitted, written >>
    /\ UNCHANGED readerVars

\* a wait that returns without waiting for the worker threads
WaitGroupNoWait(workers) == TRUE

\* ThreadManager::wait (io.rs:63-67): wg.wait() returns once every worker
\* thread has dropped its clone of the wait group
WaitGroupDone(workers) == \A w \in Workers : workers[w].st = "exited"

Wait ==
    /\ pc.at = "wait"
    /\ WaitGroupDone(wk)
    /\ pc' = [pc EXCEPT !.at = "final_drain"]
    /\ UNCHANGED << metadata, lookup_table, data_entries, head_written,
                    compressed, compression_level, sender_work, threads_started,
                    work, result, wk, sink, pending, ret, calls, added,
                    submitted, written >>
    /\ UNCHANGED readerVars

\* the loop of finish's write_serialized ends; flush_writer; finish returns
FinishReturn ==
    /\ pc.at = "final_drain"
    /\ ~IsSome(TryRecv(result))
    /\ pc' = [pc EXCEPT !.at = "idle"]
    /\ ret' = [op |-> "finish", val |-> Ok(Unit)]
    /\ UNCHANGED << metadata, lookup_table, data_entries, head_written,
                    compressed, compression_level, sender_work, threads_started,
                    work, result, wk, sink, pending, calls, added, submitted,
                    written >>
    /\ UNCHANGED readerVars

(***************************************************************************)
(* A worker thread (io.rs:102-110).                                        *)
(***************************************************************************)
\* `for mut chunk in r` received a chunk: compress it if asked, serialize it
WorkerRecv(w) ==
    /\ wk[w].st = "recv"
    /\ work # <<>>
    /\ LET item  == Head(work)
           chunk == IF wk[w].compress THEN compress(item.chunk, wk[w].level)
                    ELSE item.chunk
       IN  wk' = [wk EXCEPT ![w].st = "send",
                            ![w].held = Some([bytes |-> serialize(chunk).out,
                                              tag |-> item.tag])]
    /\ work' = Tail(work)
    /\ UNCHANGED << metadata, lookup_table, data_entries, head_written,
                    compressed, compression_level, sender_work, threads_started,
                    result, sink, pc, pending, ret, calls, added, submitted,
                    written >>
    /\ UNCHANGED readerVars

\* s.send(chunk.serialize()), which blocks while the result channel is full
WorkerSend(w) ==
    /\ wk[w].st = "send"
    /\ ~ChannelFull(result)
    /\ result' = Append(result, Unwrap(wk[w].held))
    /\ wk' = [wk EXCEPT ![w].st = "recv", ![w].held = None]
    /\ UNCHANGED << metadata, lookup_table, data_entries, head_written,
                    compressed, compression_level, sender_work, threads_started,
                    work, sink, pc, pending, ret, calls, added, submitted,
                    written >>
    /\ UNCHANGED readerVars

\* the work channel is empty and its sender dropped: the loop ends and the
\* thread drops its wait group
WorkerExit(w) ==
    /\ wk[w].st = "recv"
    /\ work = <<>>
    /\ ~sender_work
    /\ wk' = [wk EXCEPT ![w].st = "exited"]
    /\ UNCHANGED << metadata, lookup_table, data_entries, head_written,
                    compressed, compression_level, sender_work, threads_started,
                    work, result, sink, pc, pending, ret, calls, added,
                    submitted, written >>
    /\ UNCHANGED readerVars

WriterNext ==
    \/ \E entry \in HashAlgos :
           /\ head_written \/ GetEntryIds(lookup_table, entry.name) = {}
           /\ AddLookupEntry(entry)
    \/ \E number \in ChunkSizes : SetEntriesPerChunk(number)
    \/ \E level \in Levels : SetCompressionLevel(level)
    \/ AddDataEntry(DataInput(Len(added) + 1, lookup_table))
    \/ Finish
    \/ SendWork
    \/ SendResult
    \/ WriteSerialized
    \/ FlushReturn
    \/ Wait
    \/ FinishReturn
    \/ \E w \in Workers : WorkerRecv(w) \/ WorkerSend(w) \/ WorkerExit(w)

(***************************************************************************)
(* BDFReader (io.rs:220-321).  Each operation is a function of the file    *)
(* and the reader, giving the reader afterwards and the value returned.    *)
(* A read_exact that meets the end of the file has consumed the rest.      *)
(***************************************************************************)
\* BDFReader::new
ReaderNew == [open |-> TRUE, poisoned |-> FALSE, pos |-> 0, metadata |-> None,
              lookup_table |-> None, compressed |-> FALSE]

Eof(f, r) == [rd |-> [r EXCEPT !.pos = Len(f)], res |-> Err("unexpected_eof")]

Panicked(r, pos) == [rd |-> [r EXCEPT !.pos = pos, !.poisoned = TRUE], res |-> Err("panic")]

\* BDFReader::validate_header (io.rs:288-293): one read of up to 11 bytes
\* into a zeroed buffer
validate_header(f, r) ==
    LET n      == IF Len(f) - r.pos < 11 THEN Len(f) - r.pos ELSE 11
        header == Slice(f, r.pos, r.pos + n) \o [i \in 1..(11 - n) |-> 0]
    IN  [rd |-> [r EXCEPT !.pos = r.pos + n], res |-> header = BDF_HDR]

\* whether next_chunk decompresses the chunk it parsed (io.rs:315)
NeedsDecompress(gen_chunk, is_compressed) ==
    gen_chunk.name = DTBL_CHUNK_NAME /\ is_compressed

\* BDFReader::next_chunk (io.rs:296-320)
next_chunk(f, r) ==
    LET p == r.pos IN
    IF p + 4 > Len(f) THEN Eof(f, r)
    ELSE IF p + 8 > Len(f) THEN Eof(f, r)
    ELSE LET length   == ReadU32(Slice(f, p, p + 4))
             name_raw == Slice(f, p + 4, p + 8)
         IN  IF ~ValidUtf8(name_raw) THEN Panicked(r, p + 8)
             ELSE IF p + 8 + length > Len(f) THEN Eof(f, r)
             ELSE IF p + 12 + length > Len(f) THEN Eof(f, r)
             ELSE LET gen_chunk ==
                          GenericChunk(length, name_raw,
                                       Slice(f, p + 8, p + 8 + length),
                                       ReadU32(Slice(f, p + 8 + length, p + 12 + length)))
                      after == [r EXCEPT !.pos = p + 12 + length]
                  IN  IF NeedsDecompress(gen_chunk, r.compressed)
                      THEN [rd |-> after, res |-> decompress(gen_chunk)]
                      ELSE [rd |-> after, res |-> Ok(gen_chunk)]

\* a `?` or an expect on a failed step: the error is returned, a panic
\* ends the use of the reader
Failed(r, res) ==
    [rd |-> [r EXCEPT !.poisoned = (res.err = "panic")], res |-> res]

\* BDFReader::read_metadata (io.rs:240-265)
read_metadata(f, r) ==
    LET hdr == validate_header(f, r) IN
    IF ~hdr.res THEN [rd |-> hdr.rd, res |-> Err("invalid_data")]
    ELSE LET nc == next_chunk(f, hdr.rd) IN
         IF ~nc.res.ok THEN Failed(nc.rd, nc.res)
         ELSE LET meta_chunk == MetaTryFrom(nc.res.val) IN
              IF ~meta_chunk.ok THEN Failed(nc.rd, meta_chunk)
              ELSE LET method == meta_chunk.val.compression_method IN
                   IF IsSome(method) /\ Unwrap(method) # LZMA
                   THEN [rd |-> nc.rd, res |-> Err("other")]
                   ELSE [rd  |-> [nc.rd EXCEPT
                                    !.compressed = IF IsSome(method) THEN TRUE ELSE @,
                                    !.metadata = Some(meta_chunk.val)],
                         res |-> Ok(meta_chunk.val)]

\* a reader taken to hold its metadata already
MetadataMissingNever(r) == FALSE

\* whether read_lookup_table has to read the metadata first (io.rs:270-271)
MetadataMissing(r) == r.metadata = None

\* BDFReader::read_lookup_table (io.rs:269-285)
read_lookup_table(f, r) ==
    LET first == IF MetadataMissing(r) THEN read_metadata(f, r)
                 ELSE [rd |-> r, res |-> Ok(Unit)]
    IN  IF ~first.res.ok THEN first
        ELSE LET nc == next_chunk(f, first.rd) IN
             IF ~nc.res.ok THEN Failed(nc.rd, nc.res)
             ELSE LET table == LookupTryFrom(nc.res.val) IN
                  IF ~table.ok THEN Failed(nc.rd, table)
                  ELSE [rd  |-> [nc.rd EXCEPT !.lookup_table = Some(table.val)],
                        res |-> Ok(table.val)]

\* BDFReader::read_start (io.rs:232-237)
read_start(f, r) ==
    LET m == read_metadata(f, r) IN
    IF ~m.res.ok THEN m
    ELSE LET t == read_lookup_table(f, m.rd) IN
         IF ~t.res.ok THEN t ELSE [rd |-> t.rd, res |-> Ok(Unit)]

CanRead == rd.open /\ ~rd.poisoned

ReaderCall(op, out) ==
    /\ rd' = out.rd
    /\ rret' = [op |-> op, val |-> out.res]
    /\ UNCHANGED << file, got >>
    /\ UNCHANGED writerVars

ReadMetadata == CanRead /\ ReaderCall("read_metadata", read_metadata(file, rd))

ReadLookupTable == CanRead /\ ReaderCall("read_lookup_table", read_lookup_table(file, rd))

ReadStart == CanRead /\ ReaderCall("read_start", read_start(file, rd))

NextChunk == CanRead /\ ReaderCall("next_chunk", next_chunk(file, rd))

\* data_entries(&lookup_table) on the chunk next_chunk has just returned,
\* with the reader's lookup table (lib.rs:67-69)
DataEntries ==
    /\ CanRead
    /\ rret.op = "next_chunk" /\ rret.val.ok
    /\ IsSome(rd.lookup_table)
    /\ LET res == chunk_data_entries(rret.val.val, Unwrap(rd.lookup_table))
       IN  /\ rret' = [op |-> "data_entries", val |-> res, chunk |-> rret.val.val]
           /\ got' = IF res.ok THEN Append(got, res.val) ELSE got
           /\ rd' = [rd EXCEPT !.poisoned = (~res.ok /\ res.err = "panic")]
    /\ UNCHANGED file
    /\ UNCHANGED writerVars

(***************************************************************************)
(* The files a reader is opened on: what a writer wrote up to the return   *)
(* of finish, as written or changed afterwards.                            *)
(***************************************************************************)
\* the chunk frames of a file after its magic: where each starts, its
\* declared length and its name
RECURSIVE Frames(_, _)
Frames(f, pos) ==
    IF pos + 12 > Len(f) THEN <<>>
    ELSE LET length == ReadU32(Slice(f, pos, pos + 4))
         IN  IF pos + 12 + length > Len(f) THEN <<>>
             ELSE << [start |-> pos, length |-> length,
                      name |-> Slice(f, pos + 4, pos + 8)] >>
                      \o Frames(f, pos + 12 + length)

\* the bytes covered by the frames
FramesEnd(frames) ==
    IF frames = <<>> THEN Len(BDF_HDR)
    ELSE frames[Len(frames)].start + 12 + frames[Len(frames)].length

DataFrames(f) ==
    LET frames == Frames(f, Len(BDF_HDR))
    IN  {i \in 1..Len(frames) : frames[i].name = DTBL_CHUNK_NAME /\ frames[i].length > 0}

\* one byte of the file changed
FlipByte(f, i) == [f EXCEPT ![i] = (f[i] + 1) % 128]

\* "XTBL": a chunk name the format does not define
UnknownName == <<88, 84, 66, 76>>

\* the name of the frame starting at start replaced
Rename(f, start, name) ==
    [i \in 1..Len(f) |-> IF i > start + 4 /\ i <= start + 8 THEN name[i - start - 4] ELSE f[i]]

\* the first data chunk with a payload: its first or its last payload byte
\* changed (the stored CRC left as it was), or its name replaced
TamperedFiles(f) ==
    LET frames == Frames(f, Len(BDF_HDR))
        data   == DataFrames(f)
    IN  IF data = {} THEN {}
        ELSE LET fr == frames[CHOOSE i \in data : \A j \in data : i <= j]
             IN  { FlipByte(f, fr.start + 8 + 1),
                   FlipByte(f, fr.start + 8 + fr.length),
                   Rename(f, fr.start, UnknownName) }

\* the writer is dropped after finish has returned and a reader is opened
\* on a file; of the writer the file it wrote and the entries it was given
\* are kept
ReaderOpen ==
    /\ ~rd.open
    /\ pc.at = "idle" /\ ret.op = "finish"
    /\ file' \in {sink} \cup TamperedFiles(sink)
    /\ rd' = ReaderNew
    /\ pc' = [at |-> "dropped", op |-> "drop"]
    /\ ret' = [op |-> "drop", val |-> Ok(Unit)]
    /\ calls' = 0
    /\ compression_level' = DefaultLevel
    /\ wk' = [w \in Workers |-> NotSpawned]
    /\ submitted' = <<>>
    /\ written' = <<>>
    /\ data_entries' = <<>>
    /\ UNCHANGED << metadata, lookup_table, head_written, compressed,
                    sender_work, threads_started, work, result, sink, pending,
                    added >>
    /\ UNCHANGED << rret, got >>

ReaderNext ==
    \/ ReadMetadata
    \/ ReadLookupTable
    \/ ReadStart
    \/ NextChunk
    \/ DataEntries

Next == WriterNext \/ ReaderOpen \/ ReaderNext

Spec == Init /\ [][Next]_vars

(***************************************************************************)
(* Properties of the writer's pipeline.                                    *)
(***************************************************************************)
\* finish has returned and no call has been made since
FinishReturned == pc.at = "idle" /\ ret.op = "finish"

\* the names of the chunks in the sink, in order
SinkNames ==
    LET frames == Frames(sink, Len(BDF_HDR))
    IN  [i \in 1..Len(frames) |-> frames[i].name]

\* C1: the serialized DTBL chunks are written to the sink in exactly the
\* order in which flush submitted them, for any interleaving of the workers:
\* the i-th chunk written is the i-th chunk submitted.
C1_WrittenInSubmissionOrder ==
    \A i \in 1..Len(written) : written[i] = submitted[i]

\* C2: every call to finish terminates: while finish waits for the wait
\* group, the wait can return or some worker thread can take a step (no
\* state is reached in which finish waits and every worker is blocked).
C2_FinishCanProgress ==
    pc.at = "wait" =>
        \/ WaitGroupDone(wk)
        \/ \E w \in Workers : ENABLED (WorkerRecv(w) \/ WorkerSend(w) \/ WorkerExit(w))

C5_HeadFrozen ==
    [][ (calls' = calls + 1 /\ pc'.op \in {"add_lookup_entry", "set_entries_per_chunk"})
          => IF head_written
             THEN /\ ~ret'.val.ok
                  /\ lookup_table' = lookup_table
                  /\ metadata' = metadata
             ELSE ret'.val.ok ]_vars

\* add_lookup_entry was refused after an add_data_entry whose flush had
\* emitted the header
C5_Witness ==
    /\ head_written /\ Len(added) >= 1 /\ sender_work
    /\ pc = [at |-> "idle", op |-> "add_lookup_entry"]
    /\ ~ret.val.ok

C9_DenseIds ==
    /\ [](/\ DOMAIN lookup_table = 0..(Cardinality(DOMAIN lookup_table) - 1)
          /\ \A k \in DOMAIN lookup_table : lookup_table[k].id = k)
    /\ [][ (calls' = calls + 1 /\ pc'.op = "add_lookup_entry" /\ ret'.val.ok)
             => LET n == Cardinality(DOMAIN lookup_table)
                IN  /\ ret'.val.val = n
                    /\ DOMAIN lookup_table' = 0..n
                    /\ lookup_table'[n].id = n
                    /\ \A k \in DOMAIN lookup_table : lookup_table'[k] = lookup_table[k] ]_vars

\* the second add_lookup_entry has returned id 1
C9_Witness ==
    /\ Cardinality(DOMAIN lookup_table) = 2
    /\ pc.op = "add_lookup_entry" /\ ret.val.ok /\ ret.val.val = 1

(***************************************************************************)
(* Reading a file back (lib.rs:63-90): read_metadata, read_lookup_table,   *)
(* then next_chunk and data_entries until next_chunk meets the end of the  *)
(* file.  Ok(the entries of all chunks, in order) or the first error.      *)
(***************************************************************************)
RECURSIVE ReadChunks(_, _, _)
ReadChunks(f, r, entries) ==
    LET nc == next_chunk(f, r) IN
    IF ~nc.res.ok
    THEN IF nc.res.err = "unexpected_eof" THEN Ok(entries) ELSE nc.res
    ELSE LET decoded == chunk_data_entries(nc.res.val, Unwrap(nc.rd.lookup_table))
         IN  IF ~decoded.ok THEN decoded
             ELSE ReadChunks(f, nc.rd, entries \o decoded.val)

ReadAll(f) ==
    LET m == read_metadata(f, ReaderNew) IN
    IF ~m.res.ok THEN m.res
    ELSE LET t == read_lookup_table(f, m.rd) IN
         IF ~t.res.ok THEN t.res
         ELSE ReadChunks(f, t.rd, <<>>)

\* C4: for any lookup table and any data entries written by the writer,
\* compressed or not, and completed with finish, a reader that calls
\* read_metadata, read_lookup_table and then next_chunk / data_entries to the
\* end of the file gets back exactly the entries that were added.
C4_RoundTrip ==
    FinishReturned => (ReadAll(sink).ok /\ ReadAll(sink).val = added)

\* C7: next_chunk never returns a DTBL chunk whose payload checksum differs
\* from the chunk's stored CRC (a file with one payload byte changed and the
\* CRC left as it was gets an error).
C7_CrcChecked ==
    (rret.op = "next_chunk" /\ rret.val.ok /\ rret.val.val.name = DTBL_CHUNK_NAME)
        => checksum_ieee(rret.val.val.data) = rret.val.val.crc

KnownNames == {META_CHUNK_NAME, HTBL_CHUNK_NAME, DTBL_CHUNK_NAME}

\* C8: a chunk whose name is none of META, HTBL, DTBL is never returned by
\* next_chunk and never decoded into data entries by data_entries.
C8_UnknownNameRejected ==
    /\ (rret.op = "next_chunk" /\ rret.val.ok) => rret.val.val.name \in KnownNames
    /\ (rret.op = "data_entries" /\ rret.val.ok) => rret.chunk.name \in KnownNames

(***************************************************************************)
(* The lookup-table codec on its own: tables built by add_lookup_entry     *)
(* from a wider choice of hash functions (the empty name among them),      *)
(* serialized in any order of the HashMap and parsed back.                 *)
(***************************************************************************)
CodecAlgos ==
    { HashEntryNew(<<>>, 2), HashEntryNew(<<102>>, 1), HashEntryNew(<<98, 97>>, 2) }

CodecInit ==
    /\ WriterNew(0, FALSE)
    /\ file = <<>>
    /\ rd = NoReader
    /\ rret = [op |-> "none", val |-> Ok(Unit)]
    /\ got = <<>>

\* TryFrom<GenericChunk> for HashLookupTable applied to
\* GenericChunk::from(&lookup_table)
LookupRoundTrip ==
    /\ pc.at = "idle"
    /\ \E order \in IterOrders(DOMAIN lookup_table) :
           rret' = [op  |-> "lookup_round_trip",
                    val |-> LookupTryFrom(GenericFromLookup(lookup_table, order)),
                    of  |-> lookup_table]
    /\ UNCHANGED << file, rd, got >>
    /\ UNCHANGED writerVars

CodecNext ==
    \/ \E entry \in CodecAlgos : AddLookupEntry(entry)
    \/ LookupRoundTrip

SpecCodec == CodecInit /\ [][CodecNext]_vars

\* C10: for every lookup table built by add_lookup_entry, parsing the HTBL
\* chunk produced from it yields the same mapping id -> (name,
\* output_length).
C10_LookupRoundTrip ==
    rret.op = "lookup_round_trip" => (rret.val.ok /\ rret.val.val = rret.of)

(***************************************************************************)
(* The DTBL payload codec on its own: lists of data entries (the empty     *)
(* plaintext and entries without digests among them) whose digests are     *)
(* named in the lookup table and have its output_length, packed by         *)
(* from_data_entries and decoded by data_entries.                          *)
(***************************************************************************)
\* the longest list of entries packed into one chunk
MaxListLen == 2

TableNames(entries) == {entries[id].name : id \in DOMAIN entries}

\* a digest of the length the table records for the name
DigestOf(entries, name) ==
    LET id == CHOOSE i \in GetEntryIds(entries, name) : TRUE
    IN  [i \in 1..entries[id].output_length |-> 7]

EntryChoices(entries) ==
    { DataEntry(plain, [n \in S |-> DigestOf(entries, n)]) :
          plain \in {<<>>, <<97>>}, S \in SUBSET TableNames(entries) }

EntryLists(entries) ==
    UNION { [1..n -> EntryChoices(entries)] : n \in 1..MaxListLen }

\* data_entries applied to from_data_entries(list, lookup_table)
EntriesRoundTrip ==
    /\ pc.at = "idle"
    /\ \E list \in EntryLists(lookup_table) :
         \E orders \in HashOrders(list) :
           rret' = [op  |-> "entries_round_trip",
                    val |-> chunk_data_entries(
                                from_data_entries(list, lookup_table, orders),
                                lookup_table),
                    of  |-> list]
    /\ UNCHANGED << file, rd, got >>
    /\ UNCHANGED writerVars

EntriesNext ==
    \/ \E entry \in HashAlgos : AddLookupEntry(entry)
    \/ EntriesRoundTrip

SpecEntries == CodecInit /\ [][EntriesNext]_vars

\* C11: for every list of data entries whose digests are named in the lookup
\* table and have its output_length, data_entries(from_data_entries(list, t),
\* t) returns the same entries in the same order, with the same plaintexts
\* and the same name-to-digest mappings.
C11_EntriesRoundTrip ==
    rret.op = "entries_round_trip" => (rret.val.ok /\ rret.val.val = rret.of)

(***************************************************************************)
(* chunk_count on its own, over the range of u64 and u32: BDFWriter::new,  *)
(* any number of set_entries_per_chunk calls, and the flush that writes    *)
(* the META chunk.  rret holds the MetaChunk, its numbers as wide integers.*)
(***************************************************************************)
\* the entry_count values given to new: small ones, and ones past 2^53
EntryCounts ==
    { BigFromInt(1), BigFromInt(2), BigFromInt(3), BigFromInt(ENTRIES_PER_CHUNK),
      BigFromInt(ENTRIES_PER_CHUNK + 1), BigPow2(31),
      BigAdd(BigPow2(53), <<1>>), BigAdd(BigPow2(54), <<1>>) }

\* the values given to set_entries_per_chunk, up to u32::MAX
WideChunkSizes ==
    { BigFromInt(1), BigFromInt(2), BigFromInt(3), BigFromInt(ENTRIES_PER_CHUNK),
      BigPow2(30), BigPow2(31), U32Max }

MetaInit ==
    /\ WriterNew(0, FALSE)
    /\ file = <<>>
    /\ rd = NoReader
    /\ rret = [op |-> "none", val |-> Ok(Unit)]
    /\ got = <<>>

\* MetaChunk::new(entry_count, ENTRIES_PER_CHUNK, compress), as BDFWriter::new
\* calls it
MetaNew(entry_count) ==
    /\ rret.op = "none"
    /\ rret' = [op   |-> "new",
                meta |-> [entry_count       |-> entry_count,
                          entries_per_chunk |-> BigFromInt(ENTRIES_PER_CHUNK),
                          chunk_count       |-> ChunkCountWide(entry_count,
                                                    BigFromInt(ENTRIES_PER_CHUNK))]]
    /\ UNCHANGED << file, rd, got >>
    /\ UNCHANGED writerVars

\* set_entries_per_chunk(number) before the header is written
MetaSetEntriesPerChunk(number) ==
    /\ rret.op \in {"new", "set_entries_per_chunk"}
    /\ rret' = [op   |-> "set_entries_per_chunk",
                meta |-> [rret.meta EXCEPT
                            !.entries_per_chunk = number,
                            !.chunk_count = ChunkCountWide(rret.meta.entry_count, number)]]
    /\ UNCHANGED << file, rd, got >>
    /\ UNCHANGED writerVars

\* the first flush writes GenericChunk::from(&self.metadata)
MetaWriteHeader ==
    /\ rret.op \in {"new", "set_entries_per_chunk"}
    /\ rret' = [op |-> "header", meta |-> rret.meta]
    /\ UNCHANGED << file, rd, got >>
    /\ UNCHANGED writerVars

MetaNext ==
    \/ \E entry_count \in EntryCounts : MetaNew(entry_count)
    \/ \E number \in WideChunkSizes : MetaSetEntriesPerChunk(number)
    \/ MetaWriteHeader

SpecMeta == MetaInit /\ [][MetaNext]_vars

\* C12: at the moment the header is written, the META chunk's chunk_count
\* equals ceil(entry_count / entries_per_chunk), for every entry_count > 0
\* and every entries_per_chunk in force (stated for the inputs whose ceil
\* fits the u32 field, the others cannot satisfy it).
C12_ChunkCountIsCeil ==
    (rret.op = "header"
        /\ ~BigLess(U32Max, BigCeilDiv(rret.meta.entry_count, rret.meta.entries_per_chunk)))
    => rret.meta.chunk_count
           = BigCeilDiv(rret.meta.entry_count, rret.meta.entries_per_chunk)

(***************************************************************************)
(* The compression level of a data chunk.                                  *)
(***************************************************************************)
\* the preset a serialized, compressed chunk was encoded with: the second
\* byte of its payload, which follows the length and the name
PresetOf(bytes) == bytes[4 + 4 + 2]

\* C13: a compression level given to set_compression_level before a data
\* chunk is submitted is the level that chunk is compressed with, on the
\* worker threads (started by an earlier flush or not) and on the inline
\* path.
C13_LevelUsed ==
    [][ /\ \A w \in Workers :
             (wk[w].st = "recv" /\ wk'[w].st = "send" /\ wk[w].compress)
                 => PresetOf(Unwrap(wk'[w].held).bytes) = Head(work).level
        /\ (Len(submitted') > Len(submitted) /\ compressed /\ ~sender_work)
                 => PresetOf(Unwrap(pending').bytes) = compression_level ]_vars

(***************************************************************************)
(* The reader on files whose head is damaged.  A file is the magic, a META *)
(* chunk, an HTBL chunk of at most one entry and one DTBL chunk, as the    *)
(* writer lays them out; the damaged files differ from it in the magic, in *)
(* the name of the first chunk or in the compression-method field.         *)
(***************************************************************************)
\* the lookup tables of the files: empty, or "f" under id 0
HeadTables == { EmptyMap, (0 :> [HashEntryNew(<<102>>, 1) EXCEPT !.id = 0]) }

\* the file a writer produces from one data entry
FileOf(meta, table, compress_flag) ==
    LET list  == << DataInput(1, table) >>
        chunk == from_data_entries(list, table,
                                   CHOOSE orders \in HashOrders(list) : TRUE)
        order == CHOOSE o \in IterOrders(DOMAIN table) : TRUE
    IN  BDF_HDR
          \o serialize(GenericFromMeta(meta)).out
          \o serialize(GenericFromLookup(table, order)).out
          \o serialize(IF compress_flag THEN compress(chunk, DefaultLevel)
                       ELSE chunk).out

\* the bytes of a file from `at` on replaced by `bytes`
SetBytes(f, at, bytes) ==
    [i \in 1..Len(f) |->
        IF i > at /\ i <= at + Len(bytes) THEN bytes[i - at] ELSE f[i]]

\* where the first chunk starts, the offset of its name and of the
\* compression-method field of a META payload
FirstChunkAt == Len(BDF_HDR)
NameAt == FirstChunkAt + 4
MethodAt == FirstChunkAt + 8 + 16

\* method names other than lzma: "gzip", a control character, and bytes that
\* are not UTF-8; a chunk name that is not UTF-8
OtherMethods == { <<103, 122, 105, 112>>, <<0, 0, 0, 1>>, <<255, 0, 0, 0>> }
BrokenName == <<255, 69, 84, 65>>

DamagedFiles(f) ==
    { FlipByte(f, 4), SubSeq(f, 1, 5) }
      \cup { SetBytes(f, NameAt, name) :
                 name \in { HTBL_CHUNK_NAME, UnknownName, BrokenName } }
      \cup { SetBytes(f, MethodAt, method) : method \in OtherMethods }

\* the writer's values the file was made from stay in metadata,
\* lookup_table and compressed
ReaderInit ==
    /\ \E compress_flag \in BOOLEAN, table \in HeadTables :
         /\ metadata = MetaChunkNew(1, ENTRIES_PER_CHUNK, compress_flag)
         /\ lookup_table = table
         /\ compressed = compress_flag
         /\ \E f \in {FileOf(metadata, table, compress_flag)} :
                file \in {f} \cup DamagedFiles(f)
    /\ data_entries = <<>>
    /\ head_written = TRUE
    /\ compression_level = DefaultLevel
    /\ sender_work = FALSE
    /\ threads_started = FALSE
    /\ work = <<>>
    /\ result = <<>>
    /\ wk = [w \in Workers |-> NotSpawned]
    /\ sink = <<>>
    /\ pc = [at |-> "dropped", op |-> "finish"]
    /\ pending = None
    /\ ret = [op |-> "finish", val |-> Ok(Unit)]
    /\ calls = 0
    /\ added = <<>>
    /\ submitted = <<>>
    /\ written = <<>>
    /\ rd = ReaderNew
    /\ rret = [op |-> "none", val |-> Ok(Unit)]
    /\ got = <<>>

SpecReader == ReaderInit /\ [][ReaderNext]_vars

\* what the claim's three cases say of a file
MagicOf(f) == SubSeq(f, 1, Len(BDF_HDR))
FirstNameOf(f) == SubSeq(f, NameAt + 1, NameAt + 4)
MethodOf(f) == SubSeq(f, MethodAt + 1, MethodAt + 4)
HeadRejected(f) ==
    \/ Len(f) < MethodAt + 4
    \/ MagicOf(f) # BDF_HDR
    \/ FirstNameOf(f) # META_CHUNK_NAME
    \/ (MethodOf(f) # NULL_BYTES /\ MethodOf(f) # LZMA)

\* C14: read_metadata on a new reader returns an error, and leaves the
\* metadata unset and the compressed flag false, whenever the magic does not
\* match, the first chunk is not named META, or the compression-method field
\* is non-zero and not lzma; otherwise it succeeds, stores the metadata and
\* sets compressed exactly when the method is lzma.
C14_ReadMetadata ==
    [][ (rd.pos = 0 /\ rd.metadata = None /\ rd' # rd /\ rret'.op = "read_metadata")
        => IF HeadRejected(file)
           THEN /\ ~rret'.val.ok
                /\ rret'.val.err # "panic"
                /\ rd'.metadata = None
                /\ ~rd'.compressed
           ELSE /\ rret'.val.ok
                /\ rd'.metadata = Some(metadata)
                /\ rd'.compressed = (MethodOf(file) = LZMA) ]_vars

\* the file is as the writer made it from metadata, lookup_table, compressed
Undamaged == file = FileOf(metadata, lookup_table, compressed)

\* C15: read_lookup_table on a reader whose metadata has not been read
\* performs read_metadata (magic and META chunk) and only then parses the
\* HTBL chunk: on a file with a rejected head it fails and sets no lookup
\* table, on the writer's file it stores the writer's metadata and returns
\* the writer's lookup table.  In every reader state the lookup table is set
\* only if the metadata is set, and a read_start that succeeds leaves both
\* set.
C15_LookupAfterMetadata ==
    [][ /\ IsSome(rd'.lookup_table) => IsSome(rd'.metadata)
        /\ (rret'.op = "read_lookup_table" /\ rd.metadata = None)
             => /\ rret'.val.ok => (IsSome(rd'.metadata) /\ IsSome(rd'.lookup_table))
                /\ (rd.pos = 0 /\ HeadRejected(file))
                     => (~rret'.val.ok /\ rd'.lookup_table = None)
                /\ (rd.pos = 0 /\ Undamaged)
                     => /\ rret'.val = Ok(lookup_table)
                        /\ rd'.metadata = Some(metadata)
                        /\ rd'.lookup_table = Some(lookup_table)
        /\ (rret'.op = "read_start" /\ rret'.val.ok)
             => (IsSome(rd'.metadata) /\ IsSome(rd'.lookup_table))
        /\ (rret'.op = "read_start" /\ rd.pos = 0 /\ Undamaged)
             => rret'.val.ok ]_vars

\* read_lookup_table has returned the one-entry table of the writer's file
C15_Witness ==
    /\ rret.op = "read_lookup_table"
    /\ rret.val = Ok(lookup_table)
    /\ DOMAIN lookup_table # {}
    /\ Undamaged
    /\ rd.metadata = Some(metadata)
    /\ rd.lookup_table = Some(lookup_table)

(***************************************************************************)
(* data_entries on a data chunk whose digests the reader's lookup table    *)
(* does not all know: the chunk is packed with the writer's table and      *)
(* decoded with a part of it.                                              *)
(***************************************************************************)
\* the hash functions of these chunks: "f" with 1-byte digests and "m" with
\* 4-byte digests
DecodeAlgos == { HashEntryNew(<<102>>, 1), HashEntryNew(<<109>>, 4) }

\* the entries of a lookup table under the ids in `known`
Restrict(entries, known) == [id \in known |-> entries[id]]

\* data_entries(&table) applied to from_data_entries(list, lookup_table)
DecodeWithTable ==
    /\ pc.at = "idle"
    /\ rret.op = "none"
    /\ \E list \in EntryLists(lookup_table) :
         \E orders \in HashOrders(list), known \in SUBSET DOMAIN lookup_table :
           rret' = [op    |-> "data_entries",
                    val   |-> chunk_data_entries(
                                  from_data_entries(list, lookup_table, orders),
                                  Restrict(lookup_table, known)),
                    of    |-> list,
                    known |-> TableNames(Restrict(lookup_table, known))]
    /\ UNCHANGED << file, rd, got >>
    /\ UNCHANGED writerVars

\* the caller registers each hash function once
DecodeNext ==
    \/ \E entry \in DecodeAlgos :
           entry.name \notin TableNames(lookup_table) /\ AddLookupEntry(entry)
    \/ DecodeWithTable

SpecDecode == CodecInit /\ [][DecodeNext]_vars

\* C16: when data_entries meets a digest record whose hash id is not in the
\* lookup table it reports an error: it does not return Ok.
C16_UnknownIdReported ==
    (rret.op = "data_entries"
        /\ \E i \in 1..Len(rret.of) : ~(DOMAIN rret.of[i].hashes \subseteq rret.known))
    => ~rret.val.ok

(***************************************************************************)
(* The checksum of a data chunk in the file.                               *)
(***************************************************************************)
\* the fields of a serialized chunk (chunks.rs:58-71)
FrameLength(bytes) == ReadU32(SubSeq(bytes, 1, 4))
FrameName(bytes) == SubSeq(bytes, 5, 8)
FramePayload(bytes) == SubSeq(bytes, 9, Len(bytes) - 4)
FrameCrc(bytes) == ReadU32(SubSeq(bytes, Len(bytes) - 3, Len(bytes)))

\* the payload of a serialized data chunk before compression
PlainPayload(bytes, is_compressed) ==
    IF is_compressed THEN XzDecode(FramePayload(bytes)) ELSE Ok(FramePayload(bytes))

\* the serialized chunk holds its payload's byte count and the CRC-32 of
\* the uncompressed payload
CrcOfPlain(bytes, is_compressed) ==
    /\ FrameLength(bytes) = Len(FramePayload(bytes))
    /\ PlainPayload(bytes, is_compressed).ok
    /\ FrameCrc(bytes) = checksum_ieee(PlainPayload(bytes, is_compressed).val)

\* C17: compress replaces the payload by its compressed form and sets length
\* to its byte count, leaving name and CRC as they were, so every DTBL chunk
\* the writer emits, from a worker or inline, compressed or not, carries the
\* CRC-32 of the uncompressed payload.
C17_CrcOfUncompressed ==
    [][ /\ \A w \in Workers :
             (wk[w].st = "recv" /\ wk'[w].st = "send")
                 => LET chunk == Head(work).chunk
                        bytes == Unwrap(wk'[w].held).bytes
                    IN  /\ CrcOfPlain(bytes, wk[w].compress)
                        /\ FrameName(bytes) = chunk.name
                        /\ FrameCrc(bytes) = chunk.crc
                        /\ PlainPayload(bytes, wk[w].compress) = Ok(chunk.data)
                        /\ wk[w].compress
                             => FramePayload(bytes) = XzEncode(chunk.data, CompressPreset)
        /\ (Len(submitted') > Len(submitted) /\ ~sender_work)
                 => /\ CrcOfPlain(Unwrap(pending').bytes, compressed)
                    /\ FrameName(Unwrap(pending').bytes) = DTBL_CHUNK_NAME ]_vars

\* a worker holds a compressed chunk of one entry or more
C17_Witness ==
    \E w \in Workers :
        /\ wk[w].st = "send"
        /\ wk[w].compress
        /\ Len(FramePayload(Unwrap(wk[w].held).bytes)) > 2

(***************************************************************************)
(* Which chunks are compressed.                                            *)
(***************************************************************************)
\* the bytes a step appends to the sink
Appended == SubSeq(sink', Len(sink) + 1, Len(sink'))

\* the chunk of the file that starts where the reader stands
RawLength(f, pos) == ReadU32(Slice(f, pos, pos + 4))
RawChunk(f, pos) ==
    LET length == RawLength(f, pos)
    IN  GenericChunk(length, Slice(f, pos + 4, pos + 8),
                     Slice(f, pos + 8, pos + 8 + length),
                     ReadU32(Slice(f, pos + 8 + length, pos + 12 + length)))

\* the META chunk the reader has stored declared lzma
DeclaredLzma(r) ==
    IsSome(r.metadata) /\ Unwrap(r.metadata).compression_method = Some(LZMA)

\* C18: the writer emits the META and HTBL chunks uncompressed, with
\* compress=true as without, and with compress=true it compresses every DTBL
\* chunk, on the worker path and on the inline path taken once the work
\* sender is dropped; the reader decompresses a chunk only if its name is
\* DTBL and the META chunk declared lzma, and returns any other chunk as it
\* is stored.
C18_OnlyDataCompressed ==
    [][ /\ (~head_written /\ head_written')
             => \E order \in IterOrders(DOMAIN lookup_table) :
                  LET meta_payload == MetaSerialize(metadata)
                      htbl_payload == LookupSerialize(lookup_table, order)
                  IN  Appended = BDF_HDR
                        \o WriteU32(Len(meta_payload)) \o META_CHUNK_NAME
                        \o meta_payload \o WriteU32(checksum_ieee(meta_payload))
                        \o WriteU32(Len(htbl_payload)) \o HTBL_CHUNK_NAME
                        \o htbl_payload \o WriteU32(checksum_ieee(htbl_payload))
        /\ \A w \in Workers :
             (wk[w].st = "recv" /\ wk'[w].st = "send")
                 => LET bytes == Unwrap(wk'[w].held).bytes
                    IN  /\ FrameName(bytes) = DTBL_CHUNK_NAME
                        /\ FramePayload(bytes)
                             = IF compressed
                               THEN XzEncode(Head(work).chunk.data, CompressPreset)
                               ELSE Head(work).chunk.data
        /\ (Len(submitted') > Len(submitted) /\ ~sender_work)
                 => LET bytes == Unwrap(pending').bytes
                    IN  /\ FrameName(bytes) = DTBL_CHUNK_NAME
                        /\ compressed = XzDecode(FramePayload(bytes)).ok
        /\ (rret'.op = "next_chunk" /\ rd' # rd /\ rd.pos + 12 <= Len(file)
                /\ rd'.pos = rd.pos + 12 + RawLength(file, rd.pos)
                /\ rd'.pos <= Len(file))
                 => LET raw == RawChunk(file, rd.pos)
                    IN  IF raw.name = DTBL_CHUNK_NAME /\ DeclaredLzma(rd)
                        THEN rret'.val.ok => rret'.val.val.data = XzDecode(raw.data).val
                        ELSE rret'.val = Ok(raw) ]_vars

\* with compress=true a chunk of one entry or more is serialized on the
\* inline path
C18_Witness ==
    /\ compressed
    /\ ~sender_work
    /\ pc.at = "send_result"
    /\ IsSome(pending)
    /\ Len(FramePayload(Unwrap(pending).bytes)) > 2

(***************************************************************************)
(* decompress on the chunks compress makes, as they are and damaged.       *)
(***************************************************************************)
\* decompress(&mut self): its result and the chunk it leaves; the
\* assignments to length and data come after both early returns
\* (chunks.rs:171-172)
DecompressSelf(chunk) ==
    LET res == decompress(chunk)
    IN  [res |-> res, self |-> IF res.ok THEN res.val ELSE chunk]

\* a chunk with one byte of its payload or its stored CRC changed
DamagedChunks(chunk) ==
    { [chunk EXCEPT !.data = FlipByte(chunk.data, i)] :
          i \in {1, 2, 3, Len(chunk.data)} \cap (1..Len(chunk.data)) }
      \cup { [chunk EXCEPT !.crc = IF chunk.crc = 0 THEN 1 ELSE chunk.crc - 1] }

\* decompress applied to compress(from_data_entries(list, lookup_table)),
\* damaged or not
CompressDecompress ==
    /\ pc.at = "idle"
    /\ rret.op = "none"
    /\ \E list \in EntryLists(lookup_table) :
         \E orders \in HashOrders(list) :
           LET chunk  == from_data_entries(list, lookup_table, orders)
               packed == compress(chunk, compression_level)
           IN  \E before \in {packed} \cup DamagedChunks(packed) :
                 rret' = [op     |-> "decompress",
                          chunk  |-> chunk,
                          before |-> before,
                          val    |-> DecompressSelf(before).res,
                          self   |-> DecompressSelf(before).self]
    /\ UNCHANGED << file, rd, got >>
    /\ UNCHANGED writerVars

\* the caller registers each hash function once
ChunkNext ==
    \/ \E entry \in HashAlgos :
           entry.name \notin TableNames(lookup_table) /\ AddLookupEntry(entry)
    \/ CompressDecompress

SpecChunk == CodecInit /\ [][ChunkNext]_vars

\* the payload is decodable and its CRC-32 is not the stored one
CrcMismatch(chunk) ==
    XzDecode(chunk.data).ok /\ checksum_ieee(XzDecode(chunk.data).val) # chunk.crc

\* C19: decompress on a chunk whose decompressed bytes have a CRC-32
\* different from the stored CRC returns an error and leaves payload and
\* length unchanged; on success the payload is the decompressed bytes and
\* length their byte count, so decompress after compress restores the
\* original payload and length.
C19_Decompress ==
    rret.op = "decompress"
    => /\ CrcMismatch(rret.before)
            => /\ ~rret.val.ok
               /\ rret.self.data = rret.before.data
               /\ rret.self.length = rret.before.length
       /\ rret.val.ok
            => /\ Ok(rret.self.data) = XzDecode(rret.before.data)
               /\ rret.self.length = Len(rret.self.data)
               /\ rret.self.name = rret.before.name
               /\ rret.self.crc = rret.before.crc
       /\ rret.before = compress(rret.chunk, DefaultLevel)
            => /\ rret.val.ok
               /\ rret.self.data = rret.chunk.data
               /\ rret.self.length = rret.chunk.length

\* decompress has refused a chunk of one entry or more whose payload decodes
\* to bytes with another CRC-32
C19_Witness ==
    /\ rret.op = "decompress"
    /\ CrcMismatch(rret.before)
    /\ rret.before.crc = rret.chunk.crc
    /\ rret.chunk.data # <<>>
    /\ ~rret.val.ok

(***************************************************************************)
(* The size of the data chunks.                                            *)
(***************************************************************************)
\* a step of flush that packs the buffer into a chunk and submits it
Submits == Len(submitted') > Len(submitted)

\* C20: every DTBL chunk the writer submits holds at most entries_per_chunk
\* entries, the value the META chunk records; add_data_entry submits a chunk
\* exactly when the buffer has reached entries_per_chunk, and the buffer is
\* empty when that call returns.
C20_ChunkSize ==
    [][ /\ Submits => Len(data_entries') <= metadata'.entries_per_chunk
        /\ Len(added') > Len(added)
             => (Submits <=> Len(data_entries') >= metadata.entries_per_chunk)
        /\ (pc.op = "add_data_entry" /\ pc.at = "drain" /\ pc'.at = "idle")
             => data_entries' = <<>> ]_vars

(***************************************************************************)
(* The number of data chunks in the file.                                  *)
(***************************************************************************)
\* the calls so far were add_data_entry, at most one set_entries_per_chunk
\* that took effect, and one finish
AddsThenFinish ==
    calls = Len(added) + 1
              + (IF metadata.entries_per_chunk = ENTRIES_PER_CHUNK THEN 0 ELSE 1)

\* C21: when the caller has added exactly entry_count data entries and
\* finish, called once, has returned, the number of DTBL chunks written to
\* the sink is the chunk_count of the META chunk, for every entry_count >= 0
\* and entries_per_chunk >= 1.
C21_ChunkCountWritten ==
    (FinishReturned /\ AddsThenFinish /\ Len(added) = metadata.entry_count)
    => /\ Len(written) = metadata.chunk_count
       /\ Cardinality({i \in 1..Len(SinkNames) : SinkNames[i] = DTBL_CHUNK_NAME})
              = metadata.chunk_count

(***************************************************************************)
(* Backpressure: the producer, the worker threads and the two bounded      *)
(* channels under fair scheduling.  Every thread that can take a step      *)
(* eventually takes one; the caller is free to make no further call.       *)
(***************************************************************************)
\* the calls of a run of the writer under fair scheduling
MaxLiveCalls == 7

LiveInit ==
    /\ \E compress_flag \in BOOLEAN : WriterNew(0, compress_flag)
    /\ file = <<>>
    /\ rd = NoReader
    /\ rret = [op |-> "none", val |-> Ok(Unit)]
    /\ got = <<>>

LiveNext ==
    \/ \E number \in ChunkSizes : SetEntriesPerChunk(number)
    \/ AddDataEntryWithin(MaxLiveCalls, DataInput(Len(added) + 1, lookup_table))
    \/ Finish
    \/ SendWork
    \/ SendResult
    \/ WriteSerialized
    \/ FlushReturn
    \/ Wait
    \/ FinishReturn
    \/ \E w \in Workers : WorkerRecv(w) \/ WorkerSend(w) \/ WorkerExit(w)

Fairness ==
    /\ WF_vars(SendWork)
    /\ WF_vars(SendResult)
    /\ WF_vars(WriteSerialized)
    /\ WF_vars(FlushReturn)
    /\ WF_vars(Wait)
    /\ WF_vars(FinishReturn)
    /\ \A w \in Workers :
           WF_vars(WorkerRecv(w)) /\ WF_vars(WorkerSend(w)) /\ WF_vars(WorkerExit(w))

SpecLive == LiveInit /\ [][LiveNext]_vars /\ Fairness

\* the producer is inside add_data_entry, at one of the sends of flush
InAddSend == pc.op = "add_data_entry" /\ pc.at \in {"send_work", "send_result"}

\* a worker blocked sending to the full result channel
BlockedOnResult(w) == wk[w].st = "send" /\ ChannelFull(result)

\* C22: no call to add_data_entry blocks forever on backpressure: whenever
\* the producer is blocked sending to a full work channel some worker is not
\* blocked sending to a full result channel, and under fair scheduling the
\* producer's send completes and add_data_entry returns.
C22_AddReturns ==
    /\ []((pc.at = "send_work" /\ pc.op = "add_data_entry" /\ ChannelFull(work))
            => \E w \in Workers : wk[w].st # "none" /\ wk[w].st # "exited"
                                    /\ ~BlockedOnResult(w))
    /\ (InAddSend ~> (pc.op = "add_data_entry" /\ pc.at = "idle"))

\* the producer is blocked in add_data_entry sending to the full work channel
C22_Witness ==
    pc.at = "send_work" /\ pc.op = "add_data_entry" /\ ChannelFull(work)

(***************************************************************************)
(* The writer on a file that takes fewer bytes than offered.  The chunks   *)
(* of the model are short, so the capacity of the BufWriter is scaled down *)
(* with them: the magic, the META chunk and the HTBL chunk of an empty     *)
(* table stay below it, as they stay below the real one, and a data chunk  *)
(* of three entries does not.                                              *)
(***************************************************************************)
ShortCapacity == 33

ShortNext ==
    \/ \E number \in ChunkSizes : SetEntriesPerChunk(number)
    \/ AddDataEntry(DataInput(Len(added) + 1, lookup_table))
    \/ Finish
    \/ SendWork
    \/ SendResult
    \/ WriteSerializedTo(ShortCapacity)
    \/ FlushReturn
    \/ Wait
    \/ FinishReturn
    \/ \E w \in Workers : WorkerRecv(w) \/ WorkerSend(w) \/ WorkerExit(w)

SpecShort == LiveInit /\ [][ShortNext]_vars

\* C23: every write of the magic, of a header chunk or of a serialized data
\* chunk commits all of its bytes or the operation returns an error: when
\* add_data_entry or finish has returned Ok the sink holds the magic and
\* whole chunks only, one DTBL chunk for each chunk written.
C23_WholeChunks ==
    (pc.at = "idle" /\ ret.val.ok /\ head_written)
    => /\ FramesEnd(Frames(sink, Len(BDF_HDR))) = Len(sink)
       /\ Cardinality({i \in 1..Len(SinkNames) : SinkNames[i] = DTBL_CHUNK_NAME})
              = Len(written)

(***************************************************************************)
(* serialize applied twice to the chunks from_data_entries makes.          *)
(***************************************************************************)
\* chunk.serialize() and chunk.serialize() again on the same chunk
SerializeTwice ==
    /\ pc.at = "idle"
    /\ rret.op = "none"
    /\ \E list \in EntryLists(lookup_table) :
         \E orders \in HashOrders(list) :
           LET chunk  == from_data_entries(list, lookup_table, orders)
               first  == serialize(chunk)
               second == serialize(first.self)
           IN  rret' = [op     |-> "serialize",
                        chunk  |-> chunk,
                        self   |-> first.self,
                        first  |-> first.out,
                        second |-> second.out]
    /\ UNCHANGED << file, rd, got >>
    /\ UNCHANGED writerVars

\* the caller registers each hash function once
SerializeNext ==
    \/ \E entry \in HashAlgos :
           entry.name \notin TableNames(lookup_table) /\ AddLookupEntry(entry)
    \/ SerializeTwice

SpecSerialize == CodecInit /\ [][SerializeNext]_vars

\* C24: serialize leaves the chunk unchanged: afterwards the payload still
\* holds `length` bytes, and serializing the same chunk twice yields
\* identical byte vectors of 12 + length bytes.
C24_SerializeKeepsChunk ==
    rret.op = "serialize"
    => /\ rret.self = rret.chunk
       /\ Len(rret.self.data) = rret.self.length
       /\ Len(rret.first) = 12 + rret.chunk.length
       /\ rret.second = rret.first

====
